---- MODULE Spec2Model ----
(***************************************************************************)
(* Model of the wake-word session controller                               *)
(* (src/components/WakeWordDetector.tsx, lines 1-887).                     *)
(*                                                                         *)
(* The component is a React function component.  Its state is the          *)
(* useState value detectorState, a handful of useRef cells, the timers it  *)
(* has armed with setTimeout, and the asynchronous functions it has in     *)
(* flight.  Handlers run to completion; a setDetectorState call queues an  *)
(* update that a later Rerender step commits, and that step runs the       *)
(* cleanups and effects whose dependency list holds detectorState.         *)
(* Callbacks capture the detectorState of the render that created them;    *)
(* the captured value is carried as the parameter / field cs.              *)
(***************************************************************************)
EXTENDS Integers, FiniteSets, Sequences, Bags, TLC

\* ---------------------------------------------------------------- bounds
MaxSessions == 2
MaxCalls == 2
MaxEnv == 3
MaxPerm == 2
MaxTimers == 5
MaxLen == 4
MaxResults == 2

\* ---------------------------------------------------------------- values
States == {"initializing", "listening", "detected", "calling", "error"}
NoState == "none"
NoTimer == [k |-> "none", s |-> 0, cs |-> "none"]
NoSession == 0
SessionIds == 1..MaxSessions
ErrorCodes == {"no-speech", "aborted", "not-allowed", "network"}

VARIABLES
  detectorState, pendingState, recognitionRef, isListening, isTransitioning,
  isCallEnding, isApiCalling, hasMicPermission, noSpeechTimeoutRef,
  restartTimeoutRef, callEndedTimeoutRef, timers, initCleanup, permPending,
  sess, nextSession, callPhase, racePending, endPending, hist, mounted,
  results, transcript, wakeWord, onresultPc

vars == <<detectorState, pendingState, recognitionRef, isListening,
          isTransitioning, isCallEnding, isApiCalling, hasMicPermission,
          noSpeechTimeoutRef, restartTimeoutRef, callEndedTimeoutRef, timers,
          initCleanup, permPending, sess, nextSession, callPhase, racePending,
          endPending, hist, mounted, results, transcript, wakeWord,
          onresultPc>>

\* The whole state as one record, so that the helpers a handler calls can be
\* composed as functions from state to state.
Cur ==
  [detectorState |-> detectorState, pendingState |-> pendingState,
   recognitionRef |-> recognitionRef, isListening |-> isListening,
   isTransitioning |-> isTransitioning, isCallEnding |-> isCallEnding,
   isApiCalling |-> isApiCalling, hasMicPermission |-> hasMicPermission,
   noSpeechTimeoutRef |-> noSpeechTimeoutRef,
   restartTimeoutRef |-> restartTimeoutRef,
   callEndedTimeoutRef |-> callEndedTimeoutRef, timers |-> timers,
   initCleanup |-> initCleanup, permPending |-> permPending, sess |-> sess,
   nextSession |-> nextSession, callPhase |-> callPhase,
   racePending |-> racePending, endPending |-> endPending,
   \* hist.notified holds the callbacks of the host made by one handler
   hist |-> [hist EXCEPT !.notified = <<>>], mounted |-> mounted]

Commit(m) ==
  /\ detectorState' = m.detectorState
  /\ pendingState' = m.pendingState
  /\ recognitionRef' = m.recognitionRef
  /\ isListening' = m.isListening
  /\ isTransitioning' = m.isTransitioning
  /\ isCallEnding' = m.isCallEnding
  /\ isApiCalling' = m.isApiCalling
  /\ hasMicPermission' = m.hasMicPermission
  /\ noSpeechTimeoutRef' = m.noSpeechTimeoutRef
  /\ restartTimeoutRef' = m.restartTimeoutRef
  /\ callEndedTimeoutRef' = m.callEndedTimeoutRef
  /\ timers' = m.timers
  /\ initCleanup' = m.initCleanup
  /\ permPending' = m.permPending
  /\ sess' = m.sess
  /\ nextSession' = m.nextSession
  /\ callPhase' = m.callPhase
  /\ racePending' = m.racePending
  /\ endPending' = m.endPending
  /\ hist' = m.hist
  /\ mounted' = m.mounted
  /\ UNCHANGED <<results, transcript, wakeWord, onresultPc>>

\* ---------------------------------------------------------------- timers
\* A pending setTimeout callback: kind k, created for session s (0 when
\* none; the id of the call-start for its hard timeout; for a hand-off, 1
\* when the detection was made in `listening` with no guard flag set) by a
\* closure that captured detectorState = cs.  timers lists the pending
\* callbacks in the order they were armed.
Timer(k, s, cs) == [k |-> k, s |-> s, cs |-> cs]

\* The delays the source passes to setTimeout, in ms.  Two of them depend on
\* the client class (isMobile), so each kind has a least and a greatest delay.
MinDelay(k) ==
  CASE k = "noSpeech" -> 8000
    [] k = "restart" -> 200
    [] k = "restartSlow" -> 300
    [] k = "restartThrow" -> 300
    [] k = "stateChange" -> 1000
    [] k = "handoff" -> 500
    [] k = "release" -> 1000
    [] k = "handoffManual" -> 500
    [] k = "releaseManual" -> 1000
    [] k = "cooldown" -> 2000
    [] k = "apiRelease" -> 1000
    [] k = "startTimeout" -> 10000
    [] k = "callEnded" -> 1000
    [] k = "callEnd2" -> 500
    [] k = "callEnd3" -> 200
    [] k = "endSettle" -> 1000
    [] k = "endRestart" -> 500
    [] k = "tryAgain" -> 3000

MaxDelay(k) ==
  CASE k = "noSpeech" -> 15000
    [] k = "restartThrow" -> 1000
    [] OTHER -> MinDelay(k)

\* The ref cell a kind of timer is stored in
Group(k) ==
  CASE k = "noSpeech" -> "noSpeech"
    [] k \in {"restart", "restartSlow", "restartThrow", "stateChange"} -> "restart"
    [] k = "callEnded" -> "callEnded"
    [] OTHER -> "untracked"

setTimeout(m, t) == [m EXCEPT !.timers = Append(@, t)]

RemoveAt(tm, i) == SubSeq(tm, 1, i - 1) \o SubSeq(tm, i + 1, Len(tm))

\* index of the callback armed last among those stored in ref cell g
LastOf(tm, g) ==
  LET I == {i \in 1..Len(tm) : Group(tm[i].k) = g}
  IN IF I = {} THEN 0 ELSE CHOOSE i \in I : \A j \in I : j <= i

\* clearTimeout(ref.current): a live handle is always the callback armed last
\* through its ref cell; a handle whose callback has run is kept as NoTimer.
clearTimeout(tm, ref) ==
  IF ref # NoTimer /\ LastOf(tm, Group(ref.k)) # 0
  THEN RemoveAt(tm, LastOf(tm, Group(ref.k)))
  ELSE tm

\* a clearing of the no-speech timeout that forgets the handle and leaves
\* the callback pending
clearNoSpeechTimeoutRefOnly(m) == [m EXCEPT !.noSpeechTimeoutRef = NoTimer]

clearNoSpeechTimeout(m) ==
  [m EXCEPT !.timers = clearTimeout(@, m.noSpeechTimeoutRef),
            !.noSpeechTimeoutRef = NoTimer]

clearRestartTimeout(m) ==
  [m EXCEPT !.timers = clearTimeout(@, m.restartTimeoutRef),
            !.restartTimeoutRef = NoTimer]

clearCallEndedTimeout(m) ==
  [m EXCEPT !.timers = clearTimeout(@, m.callEndedTimeoutRef),
            !.callEndedTimeoutRef = NoTimer]

clearAllTimeouts(m) ==
  clearCallEndedTimeout(clearRestartTimeout(clearNoSpeechTimeout(m)))

\* xRef.current = setTimeout(...): the previous handle is overwritten, not
\* cleared, so the previous callback stays pending.
armNoSpeech(m, t) == [setTimeout(m, t) EXCEPT !.noSpeechTimeoutRef = t]
armRestart(m, t) == [setTimeout(m, t) EXCEPT !.restartTimeoutRef = t]
armCallEnded(m, t) == [setTimeout(m, t) EXCEPT !.callEndedTimeoutRef = t]

\* ---------------------------------------------------------------- helpers
\* the props of the hosting component: onCallStatusChange?.(status) ...
notifyStatus(m, status) == [m EXCEPT !.hist.notified = Append(@, status)]

\* ... and onEndCall?.()
onEndCall(m) == [m EXCEPT !.hist.notified = Append(@, "onEndCall")]

\* recognition.stop() as the platform sees it
PlatformStop(st) ==
  CASE st = "starting" -> "stopping0"
    [] st = "running" -> "stopping"
    [] OTHER -> st

\* stopRecognition whose call of stop() is not inside try/catch: an exception
\* leaves the function before the handle and the flag are reset
stopRecognitionUncaught(m, throws) ==
  IF m.recognitionRef # NoSession /\ throws THEN m
  ELSE LET m1 == IF m.recognitionRef # NoSession
                 THEN [m EXCEPT !.sess[m.recognitionRef] = PlatformStop(@),
                                !.recognitionRef = NoSession]
                 ELSE m
       IN [m1 EXCEPT !.isListening = FALSE]

\* stopRecognition.  throws: recognitionRef.current.stop() throws, which
\* leaves the session as the platform has it; the exception is caught.
stopRecognitionWith(m, throws) ==
  LET m1 == IF m.recognitionRef # NoSession
            THEN [m EXCEPT !.sess[m.recognitionRef] =
                             IF throws THEN @ ELSE PlatformStop(@),
                           !.recognitionRef = NoSession]
            ELSE m
  IN [m1 EXCEPT !.isListening = FALSE]

\* stop() of the platform does not throw on a session object it has created
stopRecognition(m) == stopRecognitionWith(m, FALSE)

\* setDetectorState(v): queue an update; React drops an update that leaves
\* the state as it is when nothing else is queued, and any update of a
\* component that is unmounted.
setDetectorState(m, v) ==
  IF ~m.mounted THEN m
  ELSE IF m.pendingState = NoState /\ v = m.detectorState THEN m
  ELSE [m EXCEPT !.pendingState = v]


\* Closure of the handlers of a recognition session: they are created inside
\* startWakeWordDetection after its guard on the captured detectorState
\* (line 192), so the detectorState they see is always this one.
SessionClosure == "listening"

\* startWakeWordDetection as created by a render whose detectorState was cs.
\* throws: the platform's recognition.start() throws.
startWakeWordDetection(m, cs, throws) ==
  IF m.isListening \/ m.isTransitioning \/ m.isApiCalling THEN m
  ELSE IF cs # "listening" THEN m
  ELSE IF throws
  THEN LET m1 == [m EXCEPT !.recognitionRef = NoSession,
                           !.isListening = FALSE,
                           !.hist.env = @ + 1]
       IN IF ~m1.isTransitioning
          THEN armRestart(m1, Timer("restartThrow", 0, cs))
          ELSE m1
  ELSE IF m.nextSession > MaxSessions
  THEN [m EXCEPT !.nextSession = MaxSessions + 2]
  ELSE [m EXCEPT !.recognitionRef = m.nextSession,
                 !.sess[m.nextSession] = "starting",
                 !.nextSession = @ + 1]

\* A step is taken only while the bounds of the model are respected.
Within(m) ==
  /\ m.nextSession <= MaxSessions + 1
  /\ m.permPending <= MaxPerm
  /\ m.hist.startCalls <= MaxCalls
  /\ m.hist.env <= MaxEnv
  /\ Len(m.timers) <= MaxTimers
  /\ BagCardinality(m.endPending) <= MaxEnv

\* ------------------------------------------------- recognition handlers
onstart(m, s, cs) ==
  armNoSpeech([m EXCEPT !.isListening = TRUE], Timer("noSpeech", s, cs))

\* the no-speech timeout armed by onstart of session t.s
noSpeechTimeout(m, t) ==
  IF t.cs = "listening" /\ m.recognitionRef = t.s /\ ~m.isTransitioning
  THEN armRestart(stopRecognition(m), Timer("restart", 0, t.cs))
  ELSE m

\* the restart callbacks armed by the session handlers
restartTimeout(m, t, throws) ==
  IF t.cs = "listening" /\ ~m.isTransitioning /\ ~m.isListening
  THEN startWakeWordDetection(m, t.cs, throws)
  ELSE m

\* onerror that treats `aborted` as it treats `no-speech`
onerrorAbortedRestarts(m, s, cs, code) ==
  CASE code \in {"no-speech", "aborted"} ->
         IF cs = "listening" /\ ~m.isTransitioning
         THEN armRestart(stopRecognition(m), Timer("restart", 0, cs))
         ELSE m
    [] code = "not-allowed" ->
         [setDetectorState(m, "error") EXCEPT !.hist.fatal = TRUE]
    [] OTHER ->
         IF cs = "listening" /\ ~m.isTransitioning
         THEN armRestart(stopRecognition(m), Timer("restartSlow", 0, cs))
         ELSE m

onerror(m, s, cs, code) ==
  CASE code = "no-speech" ->
         IF cs = "listening" /\ ~m.isTransitioning
         THEN armRestart(stopRecognition(m), Timer("restart", 0, cs))
         ELSE m
    [] code = "aborted" -> [m EXCEPT !.isListening = FALSE]
    [] code = "not-allowed" ->
         \* hist.fatal records that the fatal path was taken
         [setDetectorState(m, "error") EXCEPT !.hist.fatal = TRUE]
    [] OTHER ->
         IF cs = "listening" /\ ~m.isTransitioning
         THEN armRestart(stopRecognition(m), Timer("restartSlow", 0, cs))
         ELSE m

onend(m, s, cs) ==
  LET m1 == clearNoSpeechTimeout([m EXCEPT !.isListening = FALSE])
  IN IF cs = "listening" /\ m1.recognitionRef = s /\ ~m1.isTransitioning
     THEN armRestart([m1 EXCEPT !.recognitionRef = NoSession],
                     Timer("restart", 0, cs))
     ELSE m1

\* onresult whose wake-word branch leaves isTransitioning alone
onresultNoTransition(m, s, cs, matches) ==
  LET m1 == clearNoSpeechTimeout(m)
      clean == IF /\ m.detectorState = "listening"
                  /\ ~m.isApiCalling /\ ~m.isCallEnding
               THEN 1 ELSE 0
  IN IF m1.isTransitioning THEN m1
     ELSE IF matches
     THEN LET m3 == clearAllTimeouts(stopRecognition(m1))
              m4 == setDetectorState(m3, "detected")
          IN setTimeout(m4, Timer("handoff", clean, "none"))
     ELSE m1

\* The wake-word branch: the hand-off timer runs startCallRef.current() and
\* arms the release timer.
onresult(m, s, cs, matches) ==
  LET m1 == clearNoSpeechTimeout(m)
      \* recorded on the hand-off timer: the detection was made in
      \* `listening` with no guard flag set
      clean == IF /\ m.detectorState = "listening"
                  /\ ~m.isApiCalling /\ ~m.isCallEnding
               THEN 1 ELSE 0
  IN IF m1.isTransitioning THEN m1
     ELSE IF matches
     THEN LET m2 == [m1 EXCEPT !.isTransitioning = TRUE]
              m3 == clearAllTimeouts(stopRecognition(m2))
              m4 == setDetectorState(m3, "detected")
          IN setTimeout(m4, Timer("handoff", clean, "none"))
     ELSE m1

\* ------------------------------------------------------------- effects
\* useEffect (initialization / permission), deps include detectorState.
\* With the cached permission flag set it forces `listening`; otherwise it
\* asks for the microphone and returns a cleanup.
initEffect(m) ==
  IF m.hasMicPermission
  THEN [setDetectorState(m, "listening") EXCEPT !.initCleanup = FALSE]
  ELSE [m EXCEPT !.permPending = @ + 1, !.initCleanup = TRUE]

initEffectCleanup(m) ==
  IF m.initCleanup THEN clearAllTimeouts(stopRecognition(m)) ELSE m

\* useEffect (state-driven recognition management) of a render with
\* detectorState = cs
stateEffect(m, cs) ==
  IF cs = "listening" /\ ~m.isTransitioning
  THEN armRestart(m, Timer("stateChange", 0, cs))
  ELSE clearRestartTimeout(clearNoSpeechTimeout(stopRecognition(m)))

stateEffectCleanup(m, cs) ==
  LET m1 == IF cs # "listening" THEN stopRecognition(m) ELSE m
  IN clearNoSpeechTimeout(clearRestartTimeout(m1))

\* the timer armed by the state effect
stateChangeTimeout(m, t, throws) ==
  IF ~m.isListening THEN startWakeWordDetection(m, t.cs, throws) ELSE m

\* React commits the queued detectorState: cleanups of the previous render,
\* then the effects of the new one, in declaration order.
render(m) ==
  LET new == m.pendingState
      old == m.detectorState
      m0 == [m EXCEPT !.pendingState = NoState]
  IN IF new = old THEN m0
     ELSE LET m1 == [m0 EXCEPT !.detectorState = new]
              m2 == stateEffectCleanup(initEffectCleanup(m1), old)
          IN stateEffect(initEffect(m2), new)

\* React unmounts the component: the queued update is dropped and the
\* cleanups of the last render run, in declaration order.
unmount(m) ==
  LET m0 == [m EXCEPT !.mounted = FALSE, !.pendingState = NoState]
  IN stateEffectCleanup(initEffectCleanup(m0), m.detectorState)

\* -------------------------------------------------------- call hand-off
\* handleStartConversation that leaves the tracked timers armed
handleStartConversationNoClear(m) ==
  LET m1 == stopRecognition(m)
      m2 == [m1 EXCEPT !.isTransitioning = TRUE, !.hist.env = @ + 1]
  IN setTimeout(setDetectorState(m2, "detected"),
                Timer("handoffManual", 0, "none"))

handleStartConversation(m) ==
  LET m1 == clearAllTimeouts(stopRecognition(m))
      m2 == [m1 EXCEPT !.isTransitioning = TRUE, !.hist.env = @ + 1]
  IN setTimeout(setDetectorState(m2, "detected"),
                Timer("handoffManual", 0, "none"))

\* the fallback of startCall when no call was started
startCallFailed(m) ==
  setTimeout([m EXCEPT !.isTransitioning = TRUE], Timer("cooldown", 0, "none"))

\* startCall up to its first await.  vbAvail: voiceBotRef.current is set.
startCall(m, vbAvail) ==
  IF m.isCallEnding THEN m
  ELSE LET m1 == clearAllTimeouts(stopRecognition(setDetectorState(m, "calling")))
       IN IF ~vbAvail THEN startCallFailed(m1)
          ELSE IF m1.isApiCalling THEN startCallFailed(m1)
          ELSE LET id == m1.hist.startCalls + 1
               IN setTimeout([m1 EXCEPT
                                !.isApiCalling = TRUE,
                                !.racePending = @ \cup {id},
                                !.hist.startCalls = id,
                                !.callPhase = IF @ = "idle" THEN "starting"
                                              ELSE @],
                             Timer("startTimeout", id, "none"))

handoffTimeout(m, vbAvail) ==
  setTimeout(startCall(m, vbAvail), Timer("release", 0, "none"))

releaseTimeout(m) == [m EXCEPT !.isTransitioning = FALSE]

\* the hand-off and release callbacks armed by handleStartConversation
handoffManualTimeout(m, vbAvail) ==
  setTimeout(startCall(m, vbAvail), Timer("releaseManual", 0, "none"))

releaseManualTimeout(m) == [m EXCEPT !.isTransitioning = FALSE]

cooldownTimeout(m) ==
  setTimeout(setDetectorState(m, "listening"), Timer("release", 0, "none"))

apiReleaseTimeout(m) == [m EXCEPT !.isApiCalling = FALSE]

\* safeApiCall of call-start id settles: the finally block, then startCall's
\* continuation
\* (the hard timeout of a race that is decided can only reject a settled
\* promise, which does nothing, so it is dropped from the pending callbacks)
safeApiCallSettled(m, id, ok) ==
  LET live == SelectSeq(m.timers,
                        LAMBDA t : ~(t.k = "startTimeout" /\ t.s = id))
      m1 == setTimeout([m EXCEPT !.racePending = @ \ {id}, !.timers = live],
                       Timer("apiRelease", 0, "none"))
  IN IF ok THEN m1 ELSE startCallFailed(m1)

\* the hard timeout of call-start t.s: it rejects the race if that is still
\* undecided
startTimeout(m, t) ==
  IF t.s \in m.racePending THEN safeApiCallSettled(m, t.s, FALSE) ELSE m

\* ------------------------------------------------------------- call end
handleCallEnd(m, cs) ==
  LET m1 == clearAllTimeouts([m EXCEPT !.isTransitioning = TRUE])
      m2 == onEndCall(notifyStatus(m1, "ended"))
  IN armCallEnded(m2, Timer("callEnded", 0, cs))

callEndedTimeout(m, t) ==
  setTimeout(setDetectorState(m, "listening"), Timer("callEnd2", 0, t.cs))

callEnd2Timeout(m, t) ==
  LET m1 == [m EXCEPT !.isTransitioning = FALSE]
  IN IF ~m1.isListening
     THEN setTimeout(stopRecognition(m1), Timer("callEnd3", 0, t.cs))
     ELSE m1

callEnd3Timeout(m, t, throws) ==
  IF t.cs = "listening" /\ ~m.isTransitioning /\ ~m.isListening
  THEN startWakeWordDetection(m, t.cs, throws)
  ELSE m

\* VoiceBot's onCallStatusChange prop of a render with detectorState = cs
\* the status handler that updates the state without stopping recognition
\* or clearing the timers
onCallStatusChangeStateOnly(m, cs, status) ==
  LET m1 == IF status \in {"ended", "error"} THEN handleCallEnd(m, cs)
            ELSE IF cs # "calling" THEN setDetectorState(m, "calling")
            ELSE m
  IN notifyStatus(m1, status)

onCallStatusChange(m, cs, status) ==
  LET m1 == IF status \in {"ended", "error"} THEN handleCallEnd(m, cs)
            ELSE IF cs # "calling"
            THEN setDetectorState(clearAllTimeouts(stopRecognition(m)),
                                  "calling")
            ELSE m
  IN notifyStatus(m1, status)

\* endCall without its re-entrancy guard
endCallUnguarded(m, cs) ==
  LET m1 == [m EXCEPT !.isCallEnding = TRUE]
      m2 == setDetectorState(clearAllTimeouts(stopRecognition(m1)),
                             "listening")
  IN [m2 EXCEPT !.endPending = @ (+) SetToBag({cs}),
                !.callPhase = IF @ = "idle" THEN @ ELSE "ending"]

\* endCall (exposed through the ref) up to its first await
endCall(m, cs) ==
  IF m.isCallEnding THEN [m EXCEPT !.hist.endIgnored = @ + 1]
  ELSE LET m1 == [m EXCEPT !.isCallEnding = TRUE]
           m2 == setDetectorState(clearAllTimeouts(stopRecognition(m1)),
                                  "listening")
       IN [m2 EXCEPT !.endPending = @ (+) SetToBag({cs}),
                     !.callPhase = IF @ = "idle" THEN @ ELSE "ending"]

\* voiceBotRef.current.endCall() resolved: notify, then wait 1000 ms
endCallResolved(m, cs) ==
  LET m1 == [m EXCEPT !.endPending = @ (-) SetToBag({cs})]
  IN setTimeout(onEndCall(notifyStatus(m1, "ended")),
                Timer("endSettle", 0, cs))

\* a catch block of endCall that only logs the error
endCallRejectedLogsOnly(m, cs) ==
  [m EXCEPT !.endPending = @ (-) SetToBag({cs})]

\* voiceBotRef.current.endCall() rejected: the catch block
endCallRejected(m, cs) ==
  LET m1 == [m EXCEPT !.endPending = @ (-) SetToBag({cs}),
                      !.isCallEnding = FALSE,
                      !.isTransitioning = FALSE,
                      !.isListening = FALSE]
  IN onEndCall(notifyStatus(setDetectorState(m1, "listening"), "ended"))

endSettleTimeout(m, t) ==
  setTimeout([m EXCEPT !.isCallEnding = FALSE,
                       !.isTransitioning = FALSE,
                       !.isListening = FALSE],
             Timer("endRestart", 0, t.cs))

endRestartTimeout(m, t, throws) ==
  IF ~m.isTransitioning /\ ~m.isListening
  THEN startWakeWordDetection(m, t.cs, throws)
  ELSE m

\* ------------------------------------------------------------ try again
handleTryAgainClick(m, cs) ==
  IF m.isApiCalling THEN m
  ELSE setTimeout(setDetectorState([m EXCEPT !.hasMicPermission = FALSE,
                                            !.hist.fatal = FALSE],
                                   "initializing"),
                  Timer("tryAgain", 0, cs))

tryAgainTimeout(m, t) ==
  IF t.cs = "initializing" THEN setDetectorState(m, "listening") ELSE m

\* ------------------------------------------------- wake-phrase matcher
\* A string is the sequence of its characters.
\* String.prototype.includes
includes(text, p) ==
  \E i \in 0..(Len(text) - Len(p)) : SubSeq(text, i + 1, i + Len(p)) = p

\* String.prototype.toLowerCase on the letters that results are made of
toLowerCase(text) ==
  [i \in 1..Len(text) |-> IF text[i] = "A" THEN "a"
                          ELSE IF text[i] = "H" THEN "h"
                          ELSE text[i]]

\* Array.prototype.join(' ')
RECURSIVE join(_)
join(parts) ==
  IF parts = <<>> THEN <<>>
  ELSE IF Len(parts) = 1 THEN parts[1]
  ELSE parts[1] \o <<" ">> \o join(Tail(parts))

\* the transcript of a result event: the best alternative of every result,
\* in lower case, joined by blanks
Transcript(rs) == join([i \in 1..Len(rs) |-> toLowerCase(rs[i])])

heyAnna == <<"h", "e", "y", " ", "a", "n", "n", "a">>
hiAnna == <<"h", "i", " ", "a", "n", "n", "a">>

annaVariationsWithoutAna ==
  <<<<"a", "n", "n", "a">>,
    <<"e", "n", "n", "a">>,
    <<"e", "n", "n", "a">>,
    <<"h", "a", "n", "n", "a", "h">>,
    <<"h", "a", "n", "n", "a">>,
    <<"o", "n", "n", "a">>,
    <<"a", "h", "n", "a">>,
    <<"a", "n", "a", "h">>,
    <<"a", "n", "n", "u", "h">>>>

annaVariations ==
  <<<<"a", "n", "n", "a">>,
    <<"a", "n", "a">>,
    <<"e", "n", "n", "a">>,
    <<"e", "n", "n", "a">>,
    <<"h", "a", "n", "n", "a", "h">>,
    <<"h", "a", "n", "n", "a">>,
    <<"o", "n", "n", "a">>,
    <<"a", "h", "n", "a">>,
    <<"a", "n", "a", "h">>,
    <<"a", "n", "n", "u", "h">>>>

heyVariations ==
  <<<<"h", "e", "y">>,
    <<"h", "i">>,
    <<"h", "a", "y">>,
    <<"h", "e", "i">>,
    <<"a", "y">>,
    <<"h", "e", "l", "l", "o">>,
    <<"h", "e", "l", "o">>,
    <<"h", "e", "y", "a">>,
    <<"h", "i", "y", "a">>,
    <<"e", "h">>,
    <<"e", "y">>>>

\* detectWakeWord without the rule that the name alone is a match
detectWakeWordNoNameAlone(text) ==
  IF includes(text, heyAnna) \/ includes(text, hiAnna) THEN TRUE
  ELSE \E h \in 1..Len(heyVariations), a \in 1..Len(annaVariations) :
         LET hey == heyVariations[h]
             anna == annaVariations[a]
             phrase == hey \o <<" ">> \o anna
         IN \/ includes(text, phrase)
            \/ includes(text, hey) /\ includes(text, anna)

\* the two loops return true at the first pair that matches: some pair matches
detectWakeWord(text) ==
  IF includes(text, heyAnna) \/ includes(text, hiAnna) THEN TRUE
  ELSE \E h \in 1..Len(heyVariations), a \in 1..Len(annaVariations) :
         LET hey == heyVariations[h]
             anna == annaVariations[a]
             phrase == hey \o <<" ">> \o anna
         IN \/ includes(text, phrase)
            \/ includes(text, hey) /\ includes(text, anna)
            \/ includes(text, anna)

\* ------------------------------------------------------------- actions
\* voiceBotRef.current: the VoiceBot child while the component is mounted,
\* null once it is unmounted
VoiceBotRefValues == {mounted}

InitController ==
  /\ detectorState = "initializing"
  /\ pendingState = NoState
  /\ recognitionRef = NoSession
  /\ isListening = FALSE
  /\ isTransitioning = FALSE
  /\ isCallEnding = FALSE
  /\ isApiCalling = FALSE
  /\ hasMicPermission = FALSE
  /\ noSpeechTimeoutRef = NoTimer
  /\ restartTimeoutRef = NoTimer
  /\ callEndedTimeoutRef = NoTimer
  /\ timers = <<>>
  /\ initCleanup = TRUE
  /\ permPending = 1
  /\ sess = [s \in SessionIds |-> "none"]
  /\ nextSession = 1
  /\ callPhase = "idle"
  /\ racePending = {}
  /\ endPending = EmptyBag
  /\ hist = [startCalls |-> 0, env |-> 0, fatal |-> FALSE, endIgnored |-> 0,
             notified |-> <<>>]
  /\ mounted = TRUE

\* no result event is being looked at
Init ==
  /\ InitController
  /\ results = <<>>
  /\ transcript = <<>>
  /\ wakeWord = FALSE
  /\ onresultPc = "idle"

\* A handler runs only when React has no update left to commit: the re-render
\* that a setDetectorState call queues is a task of its own, queued at once,
\* and it runs before any timer or event that fires later.
Step(m) == pendingState = NoState /\ Within(m) /\ Commit(m)

\* getUserMedia settles
PermissionGranted ==
  /\ permPending > 0
  /\ Step(setDetectorState([Cur EXCEPT !.permPending = @ - 1,
                                       !.hasMicPermission = TRUE],
                           "listening"))

PermissionDenied ==
  /\ permPending > 0
  /\ Step(setDetectorState([Cur EXCEPT !.permPending = @ - 1], "error"))

Rerender ==
  /\ pendingState # NoState
  /\ Within(render(Cur))
  /\ Commit(render(Cur))

\* ---- events of the platform's recognition sessions

RecognitionStartOf(s) ==
  /\ sess[s] = "starting"
  /\ Step(onstart([Cur EXCEPT !.sess[s] = "running"], s, SessionClosure))

\* after stop() a session returns at most one more result, made of the audio
\* captured so far
FinalResult(st) == IF st = "stopping" THEN "stopping0" ELSE st

RecognitionResultOf(s) ==
  \E matches \in BOOLEAN :
    /\ sess[s] \in {"running", "stopping"}
    /\ Step(onresult([Cur EXCEPT !.sess[s] = FinalResult(@)],
                     s, SessionClosure, matches))

\* a result whose transcript matches the wake phrase
RecognitionWakeOf(s) ==
  /\ sess[s] \in {"running", "stopping"}
  /\ Step(onresult([Cur EXCEPT !.sess[s] = FinalResult(@)],
                   s, SessionClosure, TRUE))

RecognitionErrorOf(s) ==
  \E code \in ErrorCodes :
    /\ \/ sess[s] \in {"starting", "running"}
       \/ sess[s] \in {"stopping", "stopping0"} /\ code = "aborted"
    /\ Step(onerror([Cur EXCEPT !.sess[s] = "errored"], s, SessionClosure, code))

\* an error event with a given code of a session that was not asked to stop
RecognitionErrorWith(code) ==
  \E s \in SessionIds :
    /\ sess[s] \in {"starting", "running"}
    /\ Step(onerror([Cur EXCEPT !.sess[s] = "errored"], s, SessionClosure,
                    code))

\* an error event with the code `aborted`
RecognitionAbortedOf(s) ==
  /\ sess[s] \in {"starting", "running", "stopping", "stopping0"}
  /\ Step(onerror([Cur EXCEPT !.sess[s] = "errored"], s, SessionClosure,
                  "aborted"))

RecognitionEndOf(s) ==
  /\ sess[s] \in {"running", "stopping", "stopping0", "errored"}
  /\ Step(onend([Cur EXCEPT !.sess[s] = "ended"], s, SessionClosure))

RecognitionStart == \E s \in SessionIds : RecognitionStartOf(s)

RecognitionResult == \E s \in SessionIds : RecognitionResultOf(s)

RecognitionError == \E s \in SessionIds : RecognitionErrorOf(s)

RecognitionEnd == \E s \in SessionIds : RecognitionEndOf(s)

\* ---- timers
\* Callback i may run: the browser runs a callback only after every callback
\* that was armed before it with a delay no longer than its own.  The hard
\* timeout of a call start is armed in the same task as, and just before,
\* the release timer of that hand-off, whose delay is shorter.
CanExpire(i) ==
  /\ \A j \in 1..(i - 1) : MaxDelay(timers[j].k) > MinDelay(timers[i].k)
  /\ ~(/\ timers[i].k = "startTimeout"
       /\ i < Len(timers)
       /\ timers[i + 1].k \in {"release", "releaseManual"})

\* the state in which callback i starts to run
Expired(i) ==
  LET g == Group(timers[i].k)
      last == i = LastOf(timers, g)
  IN [Cur EXCEPT
        !.timers = RemoveAt(@, i),
        !.noSpeechTimeoutRef = IF g = "noSpeech" /\ last THEN NoTimer ELSE @,
        !.restartTimeoutRef = IF g = "restart" /\ last THEN NoTimer ELSE @,
        !.callEndedTimeoutRef = IF g = "callEnded" /\ last THEN NoTimer ELSE @]

Pending(K) == {i \in 1..Len(timers) : timers[i].k \in K /\ CanExpire(i)}

NoSpeechTimeoutFires ==
  \E i \in Pending({"noSpeech"}) :
    Step(noSpeechTimeout(Expired(i), timers[i]))

RestartTimeoutFires ==
  \E i \in Pending({"restart", "restartSlow", "restartThrow"}),
     throws \in BOOLEAN :
    Step(restartTimeout(Expired(i), timers[i], throws))

StateChangeTimeoutFires ==
  \E i \in Pending({"stateChange"}), throws \in BOOLEAN :
    Step(stateChangeTimeout(Expired(i), timers[i], throws))

HandoffTimeoutFires ==
  \E i \in Pending({"handoff"}), vbAvail \in VoiceBotRefValues :
    Step(handoffTimeout(Expired(i), vbAvail))

\* the hand-off of a detection made in `listening` with no guard flag set
CleanHandoffFires ==
  \E i \in Pending({"handoff"}), vbAvail \in VoiceBotRefValues :
    /\ timers[i].s = 1
    /\ Step(handoffTimeout(Expired(i), vbAvail))

ReleaseTimeoutFires ==
  \E i \in Pending({"release"}) : Step(releaseTimeout(Expired(i)))

CooldownTimeoutFires ==
  \E i \in Pending({"cooldown"}) : Step(cooldownTimeout(Expired(i)))

ApiReleaseTimeoutFires ==
  \E i \in Pending({"apiRelease"}) : Step(apiReleaseTimeout(Expired(i)))

CallEndedTimeoutFires ==
  \E i \in Pending({"callEnded"}) :
    Step(callEndedTimeout(Expired(i), timers[i]))

CallEnd2TimeoutFires ==
  \E i \in Pending({"callEnd2"}) :
    Step(callEnd2Timeout(Expired(i), timers[i]))

CallEnd3TimeoutFires ==
  \E i \in Pending({"callEnd3"}), throws \in BOOLEAN :
    Step(callEnd3Timeout(Expired(i), timers[i], throws))

EndSettleTimeoutFires ==
  \E i \in Pending({"endSettle"}) :
    Step(endSettleTimeout(Expired(i), timers[i]))

EndRestartTimeoutFires ==
  \E i \in Pending({"endRestart"}), throws \in BOOLEAN :
    Step(endRestartTimeout(Expired(i), timers[i], throws))

StartTimeoutFires ==
  \E i \in Pending({"startTimeout"}) :
    Step(startTimeout(Expired(i), timers[i]))

TryAgainTimeoutFires ==
  \E i \in Pending({"tryAgain"}) :
    Step(tryAgainTimeout(Expired(i), timers[i]))

ManualHandoffTimeoutFires ==
  \E i \in Pending({"handoffManual"}), vbAvail \in VoiceBotRefValues :
    Step(handoffManualTimeout(Expired(i), vbAvail))

ManualReleaseTimeoutFires ==
  \E i \in Pending({"releaseManual"}) : Step(releaseManualTimeout(Expired(i)))

\* ---- the hosting application
\* the window event `startConversation`
ManualTrigger ==
  /\ pendingState = NoState
  /\ Step(handleStartConversation(Cur))

\* the host calls endCall() through the ref; the closure is the one of the
\* render that is committed
HostEndCall ==
  /\ pendingState = NoState
  /\ Step(endCall([Cur EXCEPT !.hist.env = @ + 1], detectorState))

TryAgainClick ==
  /\ detectorState = "error"
  /\ Step(handleTryAgainClick([Cur EXCEPT !.hist.env = @ + 1],
                              detectorState))

\* the host removes the component from the page
Unmount ==
  /\ mounted
  /\ Within(unmount(Cur))
  /\ Commit(unmount(Cur))

\* ---- the external call session
CallStartResolved ==
  \E id \in racePending :
    /\ callPhase = "starting"
    /\ Step(safeApiCallSettled([Cur EXCEPT !.callPhase = "ongoing"], id, TRUE))

CallStartRejected ==
  \E id \in racePending :
    /\ callPhase = "starting"
    /\ Step(safeApiCallSettled([Cur EXCEPT !.callPhase = "idle"], id, FALSE))

CallStatusProgress ==
  \E status \in {"connecting", "ongoing"} :
    /\ callPhase \in {"starting", "ongoing"}
    /\ Step(onCallStatusChange([Cur EXCEPT !.hist.env = @ + 1],
                               detectorState, status))

CallStatusTerminal ==
  \E status \in {"ended", "error"} :
    /\ callPhase # "idle"
    /\ Step(onCallStatusChange([Cur EXCEPT !.callPhase = "idle"],
                               detectorState, status))

VbEndCallResolved ==
  \E cs \in BagToSet(endPending) : Step(endCallResolved(Cur, cs))

VbEndCallRejected ==
  \E cs \in BagToSet(endPending) : Step(endCallRejected(Cur, cs))

\* Listening: permission, rendering and the recognition sessions
NextListen ==
  \/ PermissionGranted
  \/ PermissionDenied
  \/ Rerender
  \/ RecognitionStart
  \/ RecognitionResult
  \/ RecognitionError
  \/ RecognitionEnd
  \/ NoSpeechTimeoutFires
  \/ RestartTimeoutFires
  \/ StateChangeTimeoutFires

\* ... and the hand-off to the external call session and back
NextCall ==
  \/ HandoffTimeoutFires
  \/ ReleaseTimeoutFires
  \/ CooldownTimeoutFires
  \/ ApiReleaseTimeoutFires
  \/ CallStartResolved
  \/ CallStartRejected
  \/ StartTimeoutFires
  \/ CallStatusProgress
  \/ CallStatusTerminal
  \/ CallEndedTimeoutFires
  \/ CallEnd2TimeoutFires
  \/ CallEnd3TimeoutFires

\* ... and the requests of the hosting application to end the call
NextEnd ==
  \/ HostEndCall
  \/ VbEndCallResolved
  \/ VbEndCallRejected
  \/ EndSettleTimeoutFires
  \/ EndRestartTimeoutFires

\* the sessions as far as endCall meets them: started, ended and restarted
NextSession ==
  \/ PermissionGranted
  \/ Rerender
  \/ StateChangeTimeoutFires
  \/ RecognitionStart
  \/ RecognitionError
  \/ RecognitionEnd
  \/ NoSpeechTimeoutFires
  \/ RestartTimeoutFires

\* ... and the manual trigger of the hosting application
NextManual ==
  \/ ManualTrigger
  \/ ManualHandoffTimeoutFires
  \/ ManualReleaseTimeoutFires

\* the manual retry after an error
NextRetry ==
  \/ TryAgainClick
  \/ TryAgainTimeoutFires

Next == NextListen \/ NextCall

\* wake-word detection and the calls it starts, without requests of the host
Spec == Init /\ [][Next]_vars

\* listening only
SpecListen == Init /\ [][NextListen]_vars

\* the hand-off of a detection or a manual trigger and the call-start it
\* makes, up to the settlement of the call-start
NextStart ==
  \/ PermissionGranted
  \/ Rerender
  \/ StateChangeTimeoutFires
  \/ RecognitionStart
  \/ RecognitionResult
  \/ HandoffTimeoutFires
  \/ ReleaseTimeoutFires
  \/ CallStartResolved
  \/ CallStartRejected
  \/ StartTimeoutFires
  \/ CooldownTimeoutFires
  \/ ApiReleaseTimeoutFires

\* wake-word detections, manual triggers and the call-starts they make
SpecManual == Init /\ [][NextStart \/ NextManual]_vars

\* listening, with the host ending calls
SpecListenEnd == Init /\ [][NextListen \/ NextEnd]_vars

\* the host ending calls over sessions that start, end and restart
SpecEnd == Init /\ [][NextSession \/ NextEnd]_vars

\* listening and handing off, with the component unmounted at any moment
SpecUnmount == Init /\ [][NextListen \/ NextStart \/ Unmount]_vars

\* a terminal call status and the callbacks of handleCallEnd
NextCallEnd ==
  \/ CallStatusTerminal
  \/ CallEndedTimeoutFires
  \/ CallEnd2TimeoutFires
  \/ CallEnd3TimeoutFires

\* hand-offs by wake word or manual trigger, and calls that end
SpecHandoffEnd == Init /\ [][NextStart \/ NextManual \/ NextCallEnd]_vars

\* listening, with the manual retry after an error
SpecRetry == Init /\ [][NextListen \/ NextRetry]_vars

\* manual triggers and the call-starts they make, with the permission
\* denied and retried
SpecManualRetry ==
  Init /\ [][NextStart \/ NextManual \/ NextRetry \/ PermissionDenied]_vars

\* hand-offs and the call-starts they make, with the host ending calls
SpecHandoffEndCall == Init /\ [][NextStart \/ NextManual \/ NextEnd]_vars

\* manual triggers with and without the microphone, the call-starts they
\* make and the sessions restarted meanwhile, with the call session reporting
\* its progress
NextProgress ==
  \/ PermissionGranted
  \/ PermissionDenied
  \/ Rerender
  \/ StateChangeTimeoutFires
  \/ RecognitionStart
  \/ NextManual
  \/ CallStartResolved
  \/ StartTimeoutFires
  \/ ApiReleaseTimeoutFires
  \/ CooldownTimeoutFires
  \/ CallStatusProgress

SpecProgress == Init /\ [][NextProgress]_vars

\* The browser runs every render that is queued and every timer callback
\* that is due; the recognition platform ends a session it was asked to stop.
\* Nothing obliges the external call session to settle a promise.
FairEnd ==
  /\ WF_vars(Rerender)
  /\ WF_vars(StateChangeTimeoutFires)
  /\ WF_vars(NoSpeechTimeoutFires)
  /\ WF_vars(RestartTimeoutFires)
  /\ WF_vars(EndSettleTimeoutFires)
  /\ WF_vars(EndRestartTimeoutFires)

SpecEndFair == SpecEnd /\ FairEnd

\* ---- the matcher on the transcripts of result events
\* the characters of the results that are enumerated in full
Letters == {"a", "A", "n", "e", "h", "y", " "}

Texts == UNION {[1..n -> Letters] : n \in 0..MaxLen}

\* results as the recognizer words them
Phrases ==
  {<<"h", "e", "y", " ", "a", "n", "n", "a">>,
   <<"H", "i", " ", "A", "n", "n", "a">>,
   <<"a", "n", "a", " ", "p", "l", "e", "a", "s", "e", " ", "s", "t", "o", "p">>,
   <<"c", "o", "m", "p", "l", "e", "t", "e", "l", "y", " ", "u", "n", "r", "e", "l", "a", "t", "e", "d", " ", "s", "e", "n", "t", "e", "n", "c", "e">>,
   <<>>,
   <<"h", "e", "l", "l", "o">>,
   <<"H", "a", "n", "n", "a", "h">>,
   <<"h", "e", "y">>}

\* event.results: one result of any text, or up to MaxResults phrases
ResultLists ==
  {<<t>> : t \in Texts} \cup UNION {[1..n -> Phrases] : n \in 0..MaxResults}

\* a result event has arrived at a controller that accepts it
InitMatcher ==
  /\ InitController
  /\ results \in ResultLists
  /\ transcript = <<>>
  /\ wakeWord = FALSE
  /\ onresultPc = "event"

controllerVars ==
  <<detectorState, pendingState, recognitionRef, isListening,
    isTransitioning, isCallEnding, isApiCalling, hasMicPermission,
    noSpeechTimeoutRef, restartTimeoutRef, callEndedTimeoutRef, timers,
    initCleanup, permPending, sess, nextSession, callPhase, racePending,
    endPending, hist, mounted>>

JoinTranscript ==
  /\ onresultPc = "event"
  /\ transcript' = Transcript(results)
  /\ onresultPc' = "transcript"
  /\ UNCHANGED <<results, wakeWord, controllerVars>>

DetectWakeWord ==
  /\ onresultPc = "transcript"
  /\ wakeWord' = detectWakeWord(transcript)
  /\ onresultPc' = "matched"
  /\ UNCHANGED <<results, transcript, controllerVars>>

NextMatcher == JoinTranscript \/ DetectWakeWord

SpecMatcher == InitMatcher /\ [][NextMatcher]_vars

TypeOK ==
  /\ detectorState \in States
  /\ pendingState \in States \cup {NoState}
  /\ recognitionRef \in SessionIds \cup {NoSession}
  /\ callPhase \in {"idle", "starting", "ongoing", "ending"}

\* --------------------------------------------------------- properties
\* a recognition session the platform is running and was not asked to stop
Live(s) == sess[s] \in {"starting", "running"}

RecognitionLive == isListening \/ \E s \in SessionIds : Live(s)

\* call-start invoked and no terminal status reported yet
CallActive == callPhase \in {"starting", "ongoing"}

HasTimer(tm, k) == \E i \in 1..Len(tm) : tm[i].k = k

CountTimers(tm, k) == Cardinality({i \in 1..Len(tm) : tm[i].k = k})

\* C1: no recognition session is live (started and not stopped, or
\* isListening = TRUE) while an external call session is active.
C1_NoRecognitionDuringCall == ~(CallActive /\ RecognitionLive)

\* C2: once the call-start operation has succeeded and until a terminal
\* status is reported, detectorState is `calling`.
C2_StaysCalling == callPhase = "ongoing" => detectorState = "calling"

\* C3: after a not-allowed recognition error (hist.fatal) and until the
\* manual retry, detectorState stays `error` once it is `error`, and no
\* recognition session is started.
C3_ErrorIsSticky ==
  [][(hist.fatal /\ hist'.fatal)
       => /\ detectorState = "error" => detectorState' = "error"
          /\ nextSession' = nextSession]_vars

EventOf(s) ==
  \/ RecognitionStartOf(s)
  \/ RecognitionResultOf(s)
  \/ RecognitionErrorOf(s)
  \/ RecognitionEndOf(s)

controller == <<detectorState, pendingState, isListening, isTransitioning,
                recognitionRef, noSpeechTimeoutRef, restartTimeoutRef,
                callEndedTimeoutRef, timers>>

\* C4: an event of a session that is not the one held in recognitionRef
\* leaves detectorState, isListening, isTransitioning, the held handle and
\* all timers unchanged.
C4_StaleEventsIgnored ==
  [][\A s \in SessionIds :
       (s # recognitionRef /\ EventOf(s)) => UNCHANGED controller]_vars

\* C5: at most one recognition session is live at any time.
C5_AtMostOneLive == Cardinality({s \in SessionIds : Live(s)}) <= 1

\* C6: isListening is true exactly when the held session has emitted its
\* start event and no end or error event since, and was not stopped.
C6_ListeningIffStarted ==
  isListening <=> (recognitionRef # NoSession /\ sess[recognitionRef] = "running")

NoGuardFlag == ~isTransitioning /\ ~isCallEnding /\ ~isApiCalling

\* a matching result arrives while the controller listens with no guard flag
WakeDetected ==
  /\ detectorState = "listening"
  /\ NoGuardFlag
  /\ \E s \in SessionIds : RecognitionWakeOf(s)

CleanHandoffs(tm) ==
  Cardinality({i \in 1..Len(tm) : tm[i].k = "handoff" /\ tm[i].s = 1})

\* C7: a matching result in `listening` with no guard flag set queues
\* `detected` and arms one hand-off; when that hand-off elapses, `calling`
\* is set and the call-start is invoked once; results that follow the
\* detection arm nothing while isTransitioning is set, and nothing but a
\* hand-off invokes the call-start.
C7_WakeStartsOneCall ==
  [][/\ WakeDetected
          => /\ pendingState' = "detected"
             /\ isTransitioning'
             /\ CleanHandoffs(timers') = CleanHandoffs(timers) + 1
     /\ (isTransitioning /\ RecognitionResult)
          => CountTimers(timers', "handoff") = CountTimers(timers, "handoff")
     /\ CleanHandoffFires
          => /\ pendingState' = "calling"
             /\ hist'.startCalls = hist.startCalls + 1
     /\ hist'.startCalls # hist.startCalls
          => /\ HandoffTimeoutFires
             /\ hist'.startCalls = hist.startCalls + 1]_vars

\* the hand-off of a detection has just invoked the call-start
C7_Witness == hist.startCalls = 1 /\ pendingState = "calling" /\ isApiCalling

\* C8: when the call session reports a terminal status, the controller
\* returns to `listening` after the settle delay and, after the debounce
\* delays, one new recognition session is started: each stage of the
\* call-end chain arms the next one and the last one starts a session.
C8_CallEndRestartsOnce ==
  [][/\ CallStatusTerminal => HasTimer(timers', "callEnded")
     /\ CallEndedTimeoutFires
          => /\ detectorState = "listening" \/ pendingState' = "listening"
             /\ HasTimer(timers', "callEnd2")
     /\ CallEnd2TimeoutFires => HasTimer(timers', "callEnd3")
     /\ CallEnd3TimeoutFires
          => \/ /\ nextSession' = nextSession + 1
                /\ Cardinality({s \in SessionIds : Live(s)'}) = 1
             \/ hist'.env # hist.env]_vars

\* C9: endCall() invoked while an end is in flight changes nothing and does
\* not invoke the call session's endCall(); an invocation that is accepted
\* invokes it once, so that never more than one is outstanding.
C9_SecondEndCallIgnored ==
  /\ [](BagCardinality(endPending) <= 1)
  /\ [][HostEndCall
          => IF isCallEnding
             THEN UNCHANGED <<detectorState, pendingState, recognitionRef,
                              isListening, isTransitioning, isCallEnding,
                              isApiCalling, hasMicPermission,
                              noSpeechTimeoutRef, restartTimeoutRef,
                              callEndedTimeoutRef, timers, initCleanup,
                              permPending, sess, nextSession, callPhase,
                              racePending, endPending>>
             ELSE BagCardinality(endPending') = BagCardinality(endPending) + 1]_vars

\* a second endCall() was made while the first one awaits the call session
C9_Witness ==
  hist.endIgnored >= 1 /\ isCallEnding /\ BagCardinality(endPending) = 1

\* C10: no recognition session is started in a state where isTransitioning
\* or isCallEnding is true.
C10_NoStartWhileFlagged ==
  [][(isTransitioning \/ isCallEnding) => nextSession' = nextSession]_vars

\* C11: a recognition result leads to a wake-word detection only when
\* detectorState is `listening` and neither isTransitioning nor isCallEnding
\* is set; a result in any other situation changes neither detectorState
\* (committed or queued) nor the pending hand-offs nor the call-starts.
C11_ResultsDroppedUnlessListening ==
  [][(/\ RecognitionResult
      /\ ~(detectorState = "listening" /\ ~isTransitioning /\ ~isCallEnding))
       => /\ detectorState' = detectorState
          /\ pendingState' = pendingState
          /\ CountTimers(timers', "handoff") = CountTimers(timers, "handoff")
          /\ hist'.startCalls = hist.startCalls]_vars

AllowedChanges ==
  {<<"initializing", "listening">>, <<"initializing", "error">>,
   <<"listening", "detected">>, <<"listening", "error">>,
   <<"detected", "calling">>, <<"calling", "listening">>,
   <<"calling", "error">>, <<"error", "initializing">>}

\* C12: every change of detectorState is one of the changes of the state
\* diagram: initializing->listening, initializing->error,
\* listening->detected, listening->error, detected->calling,
\* calling->listening, calling->error, error->initializing.
C12_OnlyDiagramChanges ==
  [][detectorState' # detectorState
       => <<detectorState, detectorState'>> \in AllowedChanges]_vars

\* what a timer is for the controller: its callback and its delay
Role(k) ==
  CASE k \in {"handoff", "handoffManual"} -> "handoff"
    [] k \in {"release", "releaseManual"} -> "release"
    [] OTHER -> k

NormTimers(tm) ==
  [i \in 1..Len(tm) |-> <<Role(tm[i].k), MinDelay(tm[i].k), MaxDelay(tm[i].k)>>]

\* the effect of a handler on the controller and on the session it holds
Effect(m) ==
  <<m.detectorState, m.pendingState, m.recognitionRef, m.isListening,
    m.isTransitioning, m.isCallEnding, m.isApiCalling,
    m.noSpeechTimeoutRef, m.restartTimeoutRef, m.callEndedTimeoutRef,
    NormTimers(m.timers), m.hist.startCalls, m.racePending, m.callPhase,
    IF recognitionRef # NoSession THEN m.sess[recognitionRef] ELSE "none">>

\* C13: in `listening` with no guard flag set a manual trigger has the effect
\* of a result that matches the wake phrase (recognition stopped, handle and
\* tracked timers cleared, isTransitioning set, `detected` queued, a
\* hand-off armed with the same delay), and the hand-off and release
\* callbacks it arms do what those of a wake detection do.
C13_ManualTriggerAsWakeWord ==
  /\ (detectorState = "listening" /\ pendingState = NoState /\ NoGuardFlag)
       => \A s \in SessionIds :
            sess[s] \in {"running", "stopping"}
              => Effect(handleStartConversation(Cur))
                   = Effect(onresult([Cur EXCEPT !.sess[s] = FinalResult(@)],
                                     s, SessionClosure, TRUE))
  /\ HasTimer(timers, "handoffManual")
       => \A vbAvail \in VoiceBotRefValues :
            Effect(handoffManualTimeout(Cur, vbAvail))
              = Effect(handoffTimeout(Cur, vbAvail))
  /\ HasTimer(timers, "releaseManual")
       => Effect(releaseManualTimeout(Cur)) = Effect(releaseTimeout(Cur))

\* a manual trigger has just been handled in `listening` with no guard flag
\* set and a running session: no hand-off came before it
C13_Witness ==
  /\ detectorState = "listening" /\ pendingState = "detected"
  /\ isTransitioning /\ ~isApiCalling
  /\ CountTimers(timers, "handoffManual") = 1
  /\ ~HasTimer(timers, "handoff") /\ ~HasTimer(timers, "release")
  /\ hist.startCalls = 0
  /\ \E s \in SessionIds : sess[s] = "stopping"

\* C14: a manual trigger received while detectorState is `detected` or
\* `calling` is a no-op: detectorState (committed or queued) and the guard
\* flags are unchanged and no hand-off is armed that would invoke the
\* call-start again.
C14_TriggerDuringCallIgnored ==
  [][(ManualTrigger /\ detectorState \in {"detected", "calling"})
       => /\ UNCHANGED <<detectorState, pendingState, isTransitioning,
                         isCallEnding, isApiCalling>>
          /\ CountTimers(timers', "handoffManual")
               = CountTimers(timers, "handoffManual")]_vars

\* C15: when the call-start fails (it rejects or the hard timeout elapses)
\* the cool-down is armed with isTransitioning set; isTransitioning stays
\* set for as long as the cool-down is pending; when the cool-down elapses
\* `listening` is set and the release of isTransitioning is armed, so the
\* controller does not stay in `calling`.
C15_FailedStartFallsBack ==
  /\ [](HasTimer(timers, "cooldown") => isTransitioning)
  /\ [][/\ (CallStartRejected \/ StartTimeoutFires)
             => isTransitioning' /\ HasTimer(timers', "cooldown")
        /\ CooldownTimeoutFires
             => /\ isTransitioning'
                /\ \/ pendingState' = "listening"
                   \/ detectorState' = "listening" /\ pendingState' = NoState
                /\ CountTimers(timers', "release")
                     = CountTimers(timers, "release") + 1]_vars

\* nothing is left that could make the controller act by itself: no update
\* to commit, no timer, no promise in flight, no session that can still send
\* an event
Quiescent ==
  /\ pendingState = NoState
  /\ timers = <<>>
  /\ permPending = 0
  /\ racePending = {}
  /\ endPending = EmptyBag
  /\ \A s \in SessionIds : sess[s] \in {"none", "ended"}

\* C16: the controller never rests in a silent `listening` state: while
\* detectorState is `listening`, no call session is active and no
\* recognition session is running, something is pending (a timer, an update, a promise or a session event)
\* that leads to the start of a session without any further manual trigger,
\* endCall request or call status.
C16_NoSilentListening ==
  ~(/\ Quiescent
    /\ callPhase = "idle"
    /\ detectorState = "listening"
    /\ ~isListening)


\* C17: at most one call-start request of the controller is outstanding, the
\* external session has at most one startCall() that was invoked and has not
\* settled, and isApiCalling is set for as long as either is the case.
StartCallOutstanding == racePending # {} \/ callPhase = "starting"

C17_OneStartCallOutstanding ==
  /\ [](Cardinality(racePending) <= 1)
  /\ [](StartCallOutstanding => isApiCalling)
  /\ [][hist'.startCalls # hist.startCalls => ~StartCallOutstanding]_vars

\* C18: the external call-start is invoked, and `calling` is requested, only
\* by a hand-off delay that elapses while detectorState is `detected`; when
\* the state has changed during the delay no call is started and the
\* controller does not go from `listening` to `calling`.
C18_CallStartOnlyFromDetected ==
  [][/\ hist'.startCalls # hist.startCalls => detectorState = "detected"
     /\ (pendingState' = "calling" /\ pendingState # "calling")
          => detectorState = "detected"]_vars

\* C19: the matcher answers true for "hey anna", "hi anna" and
\* "ana please stop", and false for "completely unrelated sentence" and for
\* the empty string.
anaPleaseStop == <<"a", "n", "a", " ", "p", "l", "e", "a", "s", "e", " ", "s", "t", "o", "p">>
unrelated ==
  <<"c", "o", "m", "p", "l", "e", "t", "e", "l", "y", " ", "u", "n", "r", "e", "l", "a", "t", "e", "d", " ", "s", "e", "n", "t", "e", "n", "c", "e">>

C19_MatcherExamples ==
  onresultPc = "matched"
    => /\ transcript \in {heyAnna, hiAnna, anaPleaseStop} => wakeWord
       /\ transcript \in {unrelated, <<>>} => ~wakeWord

C19_Witness ==
  /\ onresultPc = "matched"
  /\ transcript = anaPleaseStop
  /\ wakeWord

\* C20: for every lowercase transcript the matcher answers true exactly when
\* the transcript contains one of the name variants as a substring; a
\* transcript with a salutation variant and no name variant does not match.
NameVariants ==
  {<<"a", "h", "n", "a">>,
   <<"a", "n", "a">>,
   <<"a", "n", "a", "h">>,
   <<"a", "n", "n", "a">>,
   <<"a", "n", "n", "u", "h">>,
   <<"e", "n", "n", "a">>,
   <<"h", "a", "n", "n", "a">>,
   <<"h", "a", "n", "n", "a", "h">>,
   <<"o", "n", "n", "a">>}

ContainsName(text) == \E n \in NameVariants : includes(text, n)

ContainsSalutation(text) ==
  \E h \in 1..Len(heyVariations) : includes(text, heyVariations[h])

C20_MatchIffNameVariant ==
  onresultPc = "matched"
    => /\ wakeWord <=> ContainsName(transcript)
       /\ (ContainsSalutation(transcript) /\ ~ContainsName(transcript))
            => ~wakeWord

C20_Witness ==
  /\ onresultPc = "matched"
  /\ ContainsSalutation(transcript)
  /\ ~ContainsName(transcript)
  /\ ~wakeWord

\* C21: of each kind of timer that is kept in a handle (the no-speech
\* timeout, the restart delay, the call-end settle timer) and of the
\* try-again fallback at most one callback is pending at any time.
CountGroup(tm, g) == Cardinality({i \in 1..Len(tm) : Group(tm[i].k) = g})

C21_OneTimerPerKind ==
  /\ \A g \in {"noSpeech", "restart", "callEnded"} : CountGroup(timers, g) <= 1
  /\ CountTimers(timers, "tryAgain") <= 1

\* C22: once the component is unmounted no recognition session is held or
\* running unstopped, and nothing that was armed before changes
\* detectorState, starts a recognition session or starts a call.
C22_TeardownReleasesAll ==
  /\ [](~mounted => recognitionRef = NoSession /\ \A s \in SessionIds : ~Live(s))
  /\ [][~mounted => /\ detectorState' = detectorState
                    /\ pendingState' = pendingState
                    /\ nextSession' = nextSession
                    /\ hist'.startCalls = hist.startCalls]_vars

\* C23: stopRecognition leaves the handle null and isListening false, also
\* when stop() throws; with no session held it changes nothing but
\* isListening; a second call changes nothing.
C23_StopRecognitionIdempotent ==
  \A t1, t2 \in BOOLEAN :
    LET once == stopRecognitionWith(Cur, t1)
        twice == stopRecognitionWith(once, t2)
    IN /\ once.recognitionRef = NoSession
       /\ ~once.isListening
       /\ twice = once
       /\ recognitionRef = NoSession
            => once = [Cur EXCEPT !.isListening = FALSE]

\* a session that stopRecognition has stopped and released
C23_Witness ==
  /\ recognitionRef = NoSession
  /\ ~isListening
  /\ \E s \in SessionIds : sess[s] = "stopping"

\* C24: while the hand-off delay of a wake-word detection or manual trigger
\* is running, a callback that was deferred by a call end neither changes or
\* queues a detectorState, nor clears isTransitioning, nor starts a
\* recognition session.
HandoffPending ==
  HasTimer(timers, "handoff") \/ HasTimer(timers, "handoffManual")

CallEndCallback ==
  \/ CallEndedTimeoutFires
  \/ CallEnd2TimeoutFires
  \/ CallEnd3TimeoutFires
  \/ EndSettleTimeoutFires
  \/ EndRestartTimeoutFires

C24_CallEndSuperseded ==
  [][(HandoffPending /\ CallEndCallback)
       => /\ detectorState' = detectorState
          /\ pendingState' = pendingState
          /\ isTransitioning' = isTransitioning
          /\ nextSession' = nextSession]_vars

\* C25: a manual retry in `error` queues `initializing` and clears the
\* cached permission flag; the render of `initializing` requests the
\* microphone again; from `initializing` the controller goes to `listening`
\* only with the permission granted, and a denial takes it to `error`.
C25_RetryRequestsPermission ==
  [][/\ TryAgainClick
          => pendingState' = "initializing" /\ ~hasMicPermission'
     /\ (Rerender /\ detectorState # "initializing"
                  /\ detectorState' = "initializing")
          => permPending' = permPending + 1
     /\ (detectorState = "initializing" /\ detectorState' = "listening")
          => hasMicPermission
     /\ PermissionDenied
          => pendingState' = "error" \/ detectorState' = "error"]_vars

\* C26: when the hand-off delay of a detection or manual trigger elapses the
\* controller goes on to `calling`, also while an endCall request is in
\* flight; it is not left behind in `detected`.
C26_HandoffReachesCalling ==
  [][(HandoffTimeoutFires \/ ManualHandoffTimeoutFires)
       => pendingState' = "calling" \/ detectorState' = "calling"]_vars

\* C27: isTransitioning is set while a hand-off delay is running and while the
\* call-start it has made is not settled, and from a terminal call status
\* until the settle delay has elapsed; no release timer of an earlier
\* transition clears it in between.
C27_TransitioningHeld ==
  /\ (HandoffPending \/ racePending # {}) => isTransitioning
  /\ HasTimer(timers, "callEnded") => isTransitioning

\* C28: an `aborted` recognition error sets isListening to false and nothing
\* else: detectorState, isTransitioning, the held handle and all timers are
\* as before and no restart is scheduled.
C28_AbortedOnlyClearsListening ==
  [][(\E s \in SessionIds : RecognitionAbortedOf(s))
       => /\ ~isListening'
          /\ UNCHANGED <<detectorState, pendingState, isTransitioning,
                         isCallEnding, isApiCalling, recognitionRef, timers,
                         noSpeechTimeoutRef, restartTimeoutRef,
                         callEndedTimeoutRef, nextSession>>]_vars

\* a running session that was aborted by the platform: it is still held,
\* its no-speech timeout is still armed and no restart is
C28_Witness ==
  /\ detectorState = "listening"
  /\ pendingState = NoState
  /\ ~isListening
  /\ \E s \in SessionIds : sess[s] = "errored" /\ recognitionRef = s
  /\ HasTimer(timers, "noSpeech")
  /\ CountGroup(timers, "restart") = 0

\* C29: a `no-speech` error, and an error other than no-speech, aborted and
\* not-allowed, that arrives while the controller is `listening` and not
\* transitioning releases the session and schedules one restart, after a
\* longer debounce for the other errors than for no-speech, and leaves
\* detectorState alone; when the controller is not `listening` or is
\* transitioning nothing is stopped or scheduled.
RestartKind(code) == IF code = "no-speech" THEN "restart" ELSE "restartSlow"

C29_ErrorRestartsOnce ==
  /\ [](MinDelay("restartSlow") > MaxDelay("restart"))
  /\ [][\A code \in {"no-speech", "network"} :
          RecognitionErrorWith(code)
            => IF detectorState = "listening" /\ ~isTransitioning
               THEN /\ recognitionRef' = NoSession
                    /\ ~isListening'
                    /\ timers' = Append(timers,
                                        Timer(RestartKind(code), 0,
                                              "listening"))
                    /\ UNCHANGED <<detectorState, pendingState>>
               ELSE UNCHANGED <<recognitionRef, isListening, timers,
                                detectorState, pendingState>>]_vars

\* C30: an end event clears the no-speech timeout handle; it schedules a
\* restart, and exactly one, when detectorState is `listening`, the session
\* that ends is the one held and the controller is not transitioning;
\* otherwise (a deliberate stop, a session whose error handler has released
\* it, a stale handle) it schedules nothing.
C30_EndRestartsOnce ==
  [][\A s \in SessionIds :
       RecognitionEndOf(s)
         => /\ noSpeechTimeoutRef' = NoTimer
            /\ ~isListening'
            /\ UNCHANGED <<detectorState, pendingState, nextSession>>
            /\ IF /\ detectorState = "listening"
                  /\ recognitionRef = s
                  /\ ~isTransitioning
               THEN /\ CountGroup(timers', "restart")
                        = CountGroup(timers, "restart") + 1
                    /\ recognitionRef' = NoSession
               ELSE /\ CountGroup(timers', "restart")
                        = CountGroup(timers, "restart")
                    /\ recognitionRef' = recognitionRef]_vars

\* C31: a deferred restart callback that fires while detectorState is not
\* `listening`, or isTransitioning is set, or isListening is set starts no
\* session and arms no further restart.
RestartCallback ==
  \/ RestartTimeoutFires
  \/ StateChangeTimeoutFires
  \/ CallEnd3TimeoutFires
  \/ EndRestartTimeoutFires

C31_RestartChecksAtFireTime ==
  [][(/\ RestartCallback
      /\ detectorState # "listening" \/ isTransitioning \/ isListening)
       => /\ nextSession' = nextSession
          /\ recognitionRef' = recognitionRef
          /\ CountGroup(timers', "restart") <= CountGroup(timers, "restart")]_vars

\* C32: when startWakeWordDetection stores a new session in recognitionRef no
\* session is held (the one held before was stopped and released), and no
\* earlier handle is taken up again.
C32_StartAfterRelease ==
  [][recognitionRef' \notin {recognitionRef, NoSession}
       => /\ recognitionRef = NoSession
          /\ recognitionRef' = nextSession
          /\ sess[recognitionRef'] = "none"]_vars

\* a restart callback whose recognition.start() throws
StartThrows == RestartCallback /\ hist'.env = hist.env + 1

\* the retry armed after a throwing start fires
RetryFires ==
  \E i \in Pending({"restartThrow"}), throws \in BOOLEAN :
    Step(restartTimeout(Expired(i), timers[i], throws))

\* C33: when beginning a session throws, no handle is held afterwards,
\* isListening is false, detectorState is unchanged and, unless the controller
\* is transitioning, exactly one retry is armed through restartTimeoutRef; the
\* retry starts nothing when it fires outside listening, while transitioning
\* or while a session is listening.
C33_ThrowingStartRetries ==
  /\ [][StartThrows
          => /\ recognitionRef' = NoSession
             /\ ~isListening'
             /\ detectorState' = detectorState
             /\ pendingState' = pendingState
             /\ sess' = sess
             /\ nextSession' = nextSession
             /\ ~isTransitioning'
                  => /\ Len(timers') = Len(timers)
                     /\ timers'[Len(timers')].k = "restartThrow"
                     /\ restartTimeoutRef' = timers'[Len(timers')]]_vars
  /\ [][(RetryFires /\ ~(detectorState = "listening" /\ ~isTransitioning
                                                         /\ ~isListening))
           => /\ nextSession' = nextSession
              /\ recognitionRef' = recognitionRef
              /\ CountGroup(timers', "restart") < CountGroup(timers, "restart")]_vars

\* C34: when voiceBotRef.current.endCall() rejects, the catch block leaves
\* isCallEnding, isTransitioning and isListening false, sets detectorState
\* to listening, notifies the host of the call end once, and the next
\* endCall() request of the host is accepted.
C34_RejectedEndIsSafe ==
  /\ [][VbEndCallRejected
          => /\ ~isCallEnding' /\ ~isTransitioning' /\ ~isListening'
             /\ \/ pendingState' = "listening"
                \/ detectorState' = "listening" /\ pendingState' = NoState
             /\ hist'.notified = <<"ended", "onEndCall">>]_vars
  /\ [][(HostEndCall /\ ~isCallEnding)
          => /\ isCallEnding'
             /\ hist'.endIgnored = hist.endIgnored
             /\ BagCardinality(endPending')
                  = BagCardinality(endPending) + 1]_vars

\* the catch block has run and a further request was accepted after it
C34_Witness ==
  /\ hist.notified = <<"ended", "onEndCall">>
  /\ ~isCallEnding
  /\ ~HasTimer(timers, "endSettle")
  /\ detectorState = "listening"
  /\ hist.env >= 1

\* the callback a ref cell holds is pending
Armed(tm, ref) == ref # NoTimer /\ LastOf(tm, Group(ref.k)) # 0

\* C35: a report of connecting or ongoing outside `calling` stops recognition,
\* clears the timer of every ref cell and sets detectorState to calling; in
\* `calling` it changes nothing in the controller.
C35_ProgressReport ==
  [][CallStatusProgress
       => IF detectorState # "calling"
          THEN /\ recognitionRef' = NoSession
               /\ ~isListening'
               /\ recognitionRef # NoSession
                    => sess'[recognitionRef] \notin {"starting", "running"}
               /\ noSpeechTimeoutRef' = NoTimer
               /\ restartTimeoutRef' = NoTimer
               /\ callEndedTimeoutRef' = NoTimer
               /\ Len(timers') = Len(timers)
                     - (IF Armed(timers, noSpeechTimeoutRef) THEN 1 ELSE 0)
                     - (IF Armed(timers, restartTimeoutRef) THEN 1 ELSE 0)
                     - (IF Armed(timers, callEndedTimeoutRef) THEN 1 ELSE 0)
               /\ pendingState' = "calling"
          ELSE UNCHANGED <<detectorState, pendingState, recognitionRef,
                           isListening, isTransitioning, isCallEnding,
                           isApiCalling, hasMicPermission, noSpeechTimeoutRef,
                           restartTimeoutRef, callEndedTimeoutRef, timers,
                           sess, nextSession, permPending>>]_vars

\* a report outside `calling` has stopped a session that was listening
C35_Witness ==
  /\ hist.notified \in {<<"connecting">>, <<"ongoing">>}
  /\ pendingState = "calling"
  /\ detectorState = "listening"
  /\ recognitionRef = NoSession
  /\ ~isTransitioning
  /\ hist.startCalls = 1
  /\ sess[2] \in {"stopping0", "stopping"}

\* C36: the try-again fallback queues `listening` when detectorState is
\* still `initializing` as it fires, and changes nothing of the controller
\* when detectorState is anything else.
C36_FallbackRecoversStall ==
  [][TryAgainTimeoutFires
       => IF detectorState = "initializing"
          THEN pendingState' = "listening"
          ELSE UNCHANGED <<detectorState, pendingState, recognitionRef,
                           isListening, isTransitioning, isCallEnding,
                           isApiCalling, hasMicPermission, sess, nextSession,
                           permPending>>]_vars

\* C37: a guard flag that is true becomes false again in every execution in
\* which renders and timers run, whether or not the promises of the external
\* call session settle.
C37_FlagsReleased ==
  /\ isCallEnding ~> ~isCallEnding
  /\ isTransitioning ~> ~isTransitioning
  /\ isApiCalling ~> ~isApiCalling

\* a result event whose transcript does not match the wake phrase
NoMatchResult ==
  \E s \in SessionIds :
    /\ sess[s] \in {"running", "stopping"}
    /\ Step(onresult([Cur EXCEPT !.sess[s] = FinalResult(@)],
                     s, SessionClosure, FALSE))

\* C38: a result that does not match the wake phrase cancels the no-speech
\* timeout and leaves detectorState, the guard flags, the held session, the
\* restart timer and the call-end timer as they were.
C38_NoMatchOnlyCancelsNoSpeech ==
  [][NoMatchResult
       => /\ UNCHANGED <<detectorState, pendingState, isListening,
                         isTransitioning, isCallEnding, isApiCalling,
                         hasMicPermission, recognitionRef, nextSession,
                         restartTimeoutRef, callEndedTimeoutRef, permPending,
                         callPhase, racePending, endPending>>
          /\ noSpeechTimeoutRef' = NoTimer
          /\ timers' = clearTimeout(timers, noSpeechTimeoutRef)
          /\ Armed(timers, noSpeechTimeoutRef)
               => CountGroup(timers', "noSpeech")
                    = CountGroup(timers, "noSpeech") - 1]_vars

\* a result has cancelled the no-speech timeout of the session that is
\* still listening
C38_Witness ==
  /\ detectorState = "listening"
  /\ pendingState = NoState
  /\ isListening
  /\ recognitionRef # NoSession
  /\ sess[recognitionRef] = "running"
  /\ noSpeechTimeoutRef = NoTimer
  /\ ~HasTimer(timers, "noSpeech")

\* the external call session reports `status`
Report(status) ==
  IF status \in {"connecting", "ongoing"}
  THEN /\ callPhase \in {"starting", "ongoing"}
       /\ Step(onCallStatusChange([Cur EXCEPT !.hist.env = @ + 1],
                                  detectorState, status))
  ELSE /\ callPhase # "idle"
       /\ Step(onCallStatusChange([Cur EXCEPT !.callPhase = "idle"],
                                  detectorState, status))

\* the statuses among the callbacks of the host, and the call-end callbacks
StatusesOf(n) == SelectSeq(n, LAMBDA x : x # "onEndCall")

EndCallsOf(n) == SelectSeq(n, LAMBDA x : x = "onEndCall")

\* C39: the host's status callback receives each reported status once and
\* nothing else, and the host's call-end callback runs once for a terminal
\* status and once for a settled endCall().
C39_DeliveredOnce ==
  /\ [][Report("connecting")
          => StatusesOf(hist'.notified) = <<"connecting">>]_vars
  /\ [][Report("ongoing") => StatusesOf(hist'.notified) = <<"ongoing">>]_vars
  /\ [][Report("ended")
          => /\ StatusesOf(hist'.notified) = <<"ended">>
             /\ Len(EndCallsOf(hist'.notified)) = 1]_vars
  /\ [][Report("error")
          => /\ StatusesOf(hist'.notified) = <<"error">>
             /\ Len(EndCallsOf(hist'.notified)) = 1]_vars
  /\ [][(VbEndCallResolved \/ VbEndCallRejected)
          => /\ StatusesOf(hist'.notified) = <<"ended">>
             /\ Len(EndCallsOf(hist'.notified)) = 1]_vars

====
